---- MODULE Spec2Model ----
(***************************************************************************)
(* Model of the contact directory of task.py: the validated value types    *)
(* (Phone, Birthday), Record, AddressBook, the command handlers wrapped by *)
(* input_error, parse_input and the command loop of main.                  *)
(*                                                                         *)
(* A text (Python str) is a sequence of code points; the model covers the  *)
(* Latin-1 range 0..255.  A date is <<year, month, day>>; the absent       *)
(* birthday (None) is <<>>.  A record reference is the index of the record *)
(* in the contacts list (records are never removed or reordered); the      *)
(* absent record (None) is index 0.  A call that can raise returns a       *)
(* record whose field exc is "None" or the name of the exception raised.   *)
(* The variable file is addressbook.pkl: absent, unreadable (a file        *)
(* pickle.load cannot read, such as an empty one), or the pickle of the    *)
(* directory save_data wrote.  The process is run again and again in the   *)
(* same working directory.                                                 *)
(***************************************************************************)
EXTENDS Integers, Sequences, FiniteSets, TLC

VARIABLES book, file, pc, out, last, ret

vars == <<book, file, pc, out, last, ret>>

\* ---------------------------------------------------------------- bounds
\* Largest number of records the model lets a directory grow to.
MaxRecords == 2
\* Largest number of phones the model lets a directory hold in total.
MaxPhones == 2

\* ------------------------------------------------------------ str methods
\* str.isspace for one Latin-1 character (what str.split / str.strip drop)
IsSpace(c) == c \in {9, 10, 11, 12, 13, 28, 29, 30, 31, 32, 133, 160}

\* str.isdigit for one Latin-1 character: 0-9 and the superscripts 2, 3, 1
IsDigitChar(c) == c \in (48..57) \cup {178, 179, 185}

\* str.lower for one Latin-1 character
LowerChar(c) ==
    IF c \in 65..90 \/ c \in 192..214 \/ c \in 216..222 THEN c + 32 ELSE c

lower(s) == [i \in 1..Len(s) |-> LowerChar(s[i])]

isdigit(s) == s # <<>> /\ \A i \in 1..Len(s) : IsDigitChar(s[i])

RECURSIVE SplitFrom(_, _, _, _)
SplitFrom(s, i, cur, acc) ==
    IF i > Len(s)
    THEN IF cur = <<>> THEN acc ELSE Append(acc, cur)
    ELSE IF IsSpace(s[i])
         THEN SplitFrom(s, i + 1, <<>>, IF cur = <<>> THEN acc ELSE Append(acc, cur))
         ELSE SplitFrom(s, i + 1, Append(cur, s[i]), acc)

\* str.split() with no separator: the runs of non-whitespace characters
split(s) == SplitFrom(s, 1, <<>>, <<>>)

RECURSIVE LStrip(_)
LStrip(s) == IF s # <<>> /\ IsSpace(Head(s)) THEN LStrip(Tail(s)) ELSE s

RECURSIVE RStrip(_)
RStrip(s) ==
    IF s # <<>> /\ IsSpace(s[Len(s)]) THEN RStrip(SubSeq(s, 1, Len(s) - 1)) ELSE s

\* str.strip()
strip(s) == RStrip(LStrip(s))

\* ------------------------------------------------------------ datetime.date
IsLeap(y) == y % 4 = 0 /\ (y % 100 # 0 \/ y % 400 = 0)

DaysInMonth(y, m) ==
    IF m = 2 THEN (IF IsLeap(y) THEN 29 ELSE 28)
    ELSE IF m \in {4, 6, 9, 11} THEN 30 ELSE 31

\* date(y, m, d) is a real calendar date
IsDate(y, m, d) ==
    y \in 1..9999 /\ m \in 1..12 /\ d >= 1 /\ d <= DaysInMonth(y, m)

\* date.replace(year=y): builds date(y, month, day), ValueError if it is none
replace_year(d, y) ==
    IF IsDate(y, d[2], d[3])
    THEN [exc |-> "None", value |-> <<y, d[2], d[3]>>]
    ELSE [exc |-> "ValueError", value |-> <<>>]

\* date < date, date <= date
DateLT(a, b) ==
    \/ a[1] < b[1]
    \/ a[1] = b[1] /\ a[2] < b[2]
    \/ a[1] = b[1] /\ a[2] = b[2] /\ a[3] < b[3]

DateLE(a, b) == a = b \/ DateLT(a, b)

NextDay(d) ==
    IF d[3] < DaysInMonth(d[1], d[2]) THEN <<d[1], d[2], d[3] + 1>>
    ELSE IF d[2] < 12 THEN <<d[1], d[2] + 1, 1>>
    ELSE <<d[1] + 1, 1, 1>>

\* date + timedelta(days=n)
RECURSIVE AddDays(_, _)
AddDays(d, n) == IF n = 0 THEN d ELSE AddDays(NextDay(d), n - 1)

RECURSIVE Decimal(_)
Decimal(n) == IF n < 10 THEN <<48 + n>> ELSE Append(Decimal(n \div 10), 48 + (n % 10))

Pad2(n) == <<48 + (n \div 10), 48 + (n % 10)>>

\* date.strftime("%Y.%m.%d") (glibc: %Y is the year without padding)
strftime_Ymd(d) == Decimal(d[1]) \o <<46>> \o Pad2(d[2]) \o <<46>> \o Pad2(d[3])

\* date.strftime("%d.%m.%Y")
strftime_dmY(d) == Pad2(d[3]) \o <<46>> \o Pad2(d[2]) \o <<46>> \o Decimal(d[1])

\* ---------------------------------------------- datetime.strptime "%d.%m.%Y"
RECURSIVE IndexOf(_, _, _)
IndexOf(s, c, i) ==
    IF i > Len(s) THEN 0 ELSE IF s[i] = c THEN i ELSE IndexOf(s, c, i + 1)

IsAsciiDigit(c) == c \in 48..57

\* %d : 3[0-1] | [1-2]\d | 0[1-9] | [1-9] | " "[1-9] ; 0 when the field does not match
DayField(f) ==
    IF Len(f) = 2 /\ f[1] = 51 /\ f[2] \in {48, 49} THEN 30 + (f[2] - 48)
    ELSE IF Len(f) = 2 /\ f[1] \in {49, 50} /\ IsAsciiDigit(f[2])
         THEN 10 * (f[1] - 48) + (f[2] - 48)
    ELSE IF Len(f) = 2 /\ f[1] \in {48, 32} /\ f[2] \in 49..57 THEN f[2] - 48
    ELSE IF Len(f) = 1 /\ f[1] \in 49..57 THEN f[1] - 48
    ELSE 0

\* %m : 1[0-2] | 0[1-9] | [1-9] ; 0 when the field does not match
MonthField(f) ==
    IF Len(f) = 2 /\ f[1] = 49 /\ f[2] \in {48, 49, 50} THEN 10 + (f[2] - 48)
    ELSE IF Len(f) = 2 /\ f[1] = 48 /\ f[2] \in 49..57 THEN f[2] - 48
    ELSE IF Len(f) = 1 /\ f[1] \in 49..57 THEN f[1] - 48
    ELSE 0

\* %Y : \d\d\d\d up to the end of the text ; -1 when the field does not match
YearField(f) ==
    IF Len(f) = 4 /\ \A i \in 1..4 : IsAsciiDigit(f[i])
    THEN 1000 * (f[1] - 48) + 100 * (f[2] - 48) + 10 * (f[3] - 48) + (f[4] - 48)
    ELSE -1

\* datetime.strptime(value, "%d.%m.%Y").date()
strptime_dmY(value) ==
    LET p1   == IndexOf(value, 46, 1)
        rest == IF p1 = 0 THEN <<>> ELSE SubSeq(value, p1 + 1, Len(value))
        p2   == IndexOf(rest, 46, 1)
        d    == IF p1 = 0 THEN 0 ELSE DayField(SubSeq(value, 1, p1 - 1))
        m    == IF p2 = 0 THEN 0 ELSE MonthField(SubSeq(rest, 1, p2 - 1))
        y    == IF p2 = 0 THEN -1 ELSE YearField(SubSeq(rest, p2 + 1, Len(rest)))
    IN  IF d # 0 /\ m # 0 /\ y # -1 /\ IsDate(y, m, d)
        THEN [exc |-> "None", value |-> <<y, m, d>>]
        ELSE [exc |-> "ValueError", value |-> <<>>]

\* ------------------------------------------------------------- value types
\* Phone.validate
validate(value) == isdigit(value) /\ Len(value) = 10

\* Phone.__init__
Phone(value) ==
    IF ~validate(value)
    THEN [exc |-> "ValueError", value |-> <<>>]
    ELSE [exc |-> "None", value |-> value]

\* Birthday.__init__
Birthday(value) == strptime_dmY(value)

\* ------------------------------------------------------------------ Record
\* Record.__init__
Record(name) == [name |-> name, phones |-> <<>>, birthday |-> <<>>]

\* Record.add_phone
add_phone(rec, phone) ==
    LET p == Phone(phone)
    IN  IF p.exc # "None"
        THEN [exc |-> p.exc, rec |-> rec]
        ELSE [exc |-> "None", rec |-> [rec EXCEPT !.phones = Append(@, p.value)]]

RECURSIVE change_phone_from(_, _, _, _)
change_phone_from(rec, old_phone, new_phone, idx) ==
    IF idx > Len(rec.phones)
    THEN [exc |-> "KeyError", rec |-> rec]
    ELSE IF rec.phones[idx] = old_phone
         THEN LET p == Phone(new_phone)
              IN  IF p.exc # "None"
                  THEN [exc |-> p.exc, rec |-> rec]
                  ELSE [exc |-> "None",
                        rec |-> [rec EXCEPT !.phones[idx] = p.value]]
         ELSE change_phone_from(rec, old_phone, new_phone, idx + 1)

\* change_phone replacing every phone equal to old_phone, not only the first
change_phone_every_match(rec, old_phone, new_phone) ==
    LET r == change_phone_from(rec, old_phone, new_phone, 1)
    IN  IF r.exc # "None" THEN r
        ELSE [exc |-> "None",
              rec |-> [rec EXCEPT !.phones =
                         [m \in 1..Len(rec.phones) |->
                            IF rec.phones[m] = old_phone THEN new_phone
                            ELSE rec.phones[m]]]]

\* Record.change_phone
change_phone(rec, old_phone, new_phone) ==
    change_phone_from(rec, old_phone, new_phone, 1)

\* Record.add_birthday
Record_add_birthday(rec, birthday) ==
    LET b == Birthday(birthday)
    IN  IF b.exc # "None"
        THEN [exc |-> b.exc, rec |-> rec]
        ELSE [exc |-> "None", rec |-> [rec EXCEPT !.birthday = b.value]]

\* ------------------------------------------------------------- AddressBook
\* add_record putting the record first
add_record_in_front(contacts, record) == <<record>> \o contacts

\* AddressBook.add_record
add_record(contacts, record) == Append(contacts, record)

RECURSIVE find_from(_, _, _)
find_from(contacts, name, i) ==
    IF i > Len(contacts) THEN 0
    ELSE IF lower(contacts[i].name) = lower(name) THEN i
    ELSE find_from(contacts, name, i + 1)

RECURSIVE find_exact_from(_, _, _)
find_exact_from(contacts, name, i) ==
    IF i > Len(contacts) THEN 0
    ELSE IF contacts[i].name = name THEN i
    ELSE find_exact_from(contacts, name, i + 1)

\* find comparing the names as they are spelled
find_exact(contacts, name) == find_exact_from(contacts, name, 1)

\* AddressBook.find: the index of the record returned, 0 for None
find(contacts, name) == find_from(contacts, name, 1)

RECURSIVE upcoming_from(_, _, _, _)
upcoming_from(contacts, today, i, upcoming_birthdays) ==
    IF i > Len(contacts)
    THEN [exc |-> "None", value |-> upcoming_birthdays]
    ELSE LET record == contacts[i]
         IN  IF record.birthday = <<>>
             THEN upcoming_from(contacts, today, i + 1, upcoming_birthdays)
             ELSE LET this_year == replace_year(record.birthday, today[1])
                  IN  IF this_year.exc # "None"
                      THEN [exc |-> this_year.exc, value |-> <<>>]
                      ELSE LET birthday_this_year ==
                                   IF DateLT(this_year.value, today)
                                   THEN replace_year(this_year.value, today[1] + 1)
                                   ELSE this_year
                           IN  IF birthday_this_year.exc # "None"
                               THEN [exc |-> birthday_this_year.exc, value |-> <<>>]
                               ELSE IF /\ DateLE(today, birthday_this_year.value)
                                       /\ DateLE(birthday_this_year.value, AddDays(today, 7))
                                    THEN upcoming_from(contacts, today, i + 1,
                                           Append(upcoming_birthdays,
                                             [name |-> record.name,
                                              congratulation_date |->
                                                strftime_Ymd(birthday_this_year.value)]))
                                    ELSE upcoming_from(contacts, today, i + 1,
                                                       upcoming_birthdays)

\* AddressBook.get_upcoming_birthdays, with today = datetime.today().date()
get_upcoming_birthdays(contacts, today) == upcoming_from(contacts, today, 1, <<>>)

\* ------------------------------------------------- Record.__str__, show_all
RECURSIVE JoinWith(_, _)
\* sep.join(texts)
JoinWith(sep, texts) ==
    IF texts = <<>> THEN <<>>
    ELSE IF Len(texts) = 1 THEN texts[1]
    ELSE texts[1] \o sep \o JoinWith(sep, Tail(texts))

Pad4(n) == <<48 + (n \div 1000), 48 + ((n \div 100) % 10), 48 + ((n \div 10) % 10), 48 + (n % 10)>>

\* str(date): YYYY-MM-DD
isoformat(d) == Pad4(d[1]) \o <<45>> \o Pad2(d[2]) \o <<45>> \o Pad2(d[3])

\* Record.__str__ : "Record(name=.., phones=.., birthday=..)"
Record_str(rec) ==
    <<82, 101, 99, 111, 114, 100, 40, 110, 97, 109, 101, 61>> \o rec.name
    \o <<44, 32, 112, 104, 111, 110, 101, 115, 61>> \o JoinWith(<<44, 32>>, rec.phones)
    \o <<44, 32, 98, 105, 114, 116, 104, 100, 97, 121, 61>>
    \o (IF rec.birthday # <<>> THEN isoformat(rec.birthday) ELSE <<78, 47, 65>>)
    \o <<41>>

\* --------------------------------------------------------- command handlers
\* A handler returns the directory as it leaves it, the exception it raised
\* ("None" when it returned), and the message it returned: a fixed text or
\* the template of an f-string, with the texts that fill the template.
Raise(contacts, e) == [book |-> contacts, exc |-> e, msg |-> "", data |-> <<>>]

Return(contacts, m, d) == [book |-> contacts, exc |-> "None", msg |-> m, data |-> d]

\* the decorator input_error: the three except clauses, anything else propagates
input_error(r) ==
    IF r.exc = "ValueError" THEN Return(r.book, "Please give me proper value.", <<>>)
    ELSE IF r.exc = "IndexError" THEN Return(r.book, "Enter the argument for the command.", <<>>)
    ELSE IF r.exc = "KeyError" THEN Return(r.book, "Contact not found.", <<>>)
    ELSE r

\* add_contact that never looks the name up
add_contact_always_new(args, contacts) ==
    IF Len(args) < 2 THEN Raise(contacts, "ValueError")
    ELSE LET book1 == add_record(contacts, Record(args[1]))
             r     == add_phone(book1[Len(book1)], args[2])
         IN  IF r.exc # "None" THEN Raise(book1, r.exc)
             ELSE Return([book1 EXCEPT ![Len(book1)] = r.rec], "Contact added.", <<>>)

add_contact(args, contacts) ==
    IF Len(args) < 2 THEN Raise(contacts, "ValueError")
    ELSE LET name    == args[1]
             phone   == args[2]
             found   == find(contacts, name)
             book1   == IF found = 0 THEN add_record(contacts, Record(name)) ELSE contacts
             record  == IF found = 0 THEN Len(book1) ELSE found
             message == IF found = 0 THEN "Contact added." ELSE "Contact updated."
         IN  IF phone # <<>>
             THEN LET r == add_phone(book1[record], phone)
                  IN  IF r.exc # "None" THEN Raise(book1, r.exc)
                      ELSE Return([book1 EXCEPT ![record] = r.rec], message, <<>>)
             ELSE Return(book1, message, <<>>)

change_contact(args, contacts) ==
    IF Len(args) # 3 THEN Raise(contacts, "ValueError")
    ELSE LET record == find(contacts, args[1])
         IN  IF record = 0 THEN Raise(contacts, "KeyError")
             ELSE LET r == change_phone(contacts[record], args[2], args[3])
                  IN  IF r.exc # "None" THEN Raise(contacts, r.exc)
                      ELSE Return([contacts EXCEPT ![record] = r.rec],
                                  "Phone number updated.", <<>>)

show_phone(args, contacts) ==
    IF Len(args) # 1 THEN Raise(contacts, "ValueError")
    ELSE LET record == find(contacts, args[1])
         IN  IF record # 0
             THEN Return(contacts, "{name}'s phone(s): {phones}",
                         <<args[1], JoinWith(<<44, 32>>, contacts[record].phones)>>)
             ELSE Raise(contacts, "KeyError")

show_all(contacts) ==
    IF contacts = <<>> THEN Return(contacts, "No contacts found.", <<>>)
    ELSE Return(contacts, "{records}",
                [i \in 1..Len(contacts) |-> Record_str(contacts[i])])

add_birthday(args, contacts) ==
    IF Len(args) # 2 THEN Raise(contacts, "ValueError")
    ELSE LET record == find(contacts, args[1])
         IN  IF record = 0 THEN Raise(contacts, "KeyError")
             ELSE LET r == Record_add_birthday(contacts[record], args[2])
                  IN  IF r.exc # "None" THEN Raise(contacts, r.exc)
                      ELSE Return([contacts EXCEPT ![record] = r.rec],
                                  "Birthday for {name} added.", <<args[1]>>)

show_birthday(args, contacts) ==
    IF Len(args) < 1 THEN Raise(contacts, "IndexError")
    ELSE LET record == find(contacts, args[1])
         IN  IF record = 0 \/ contacts[record].birthday = <<>>
             THEN Return(contacts, "No birthday found for {name}.", <<args[1]>>)
             ELSE Return(contacts, "{name}'s birthday is on {date}.",
                         <<args[1], strftime_dmY(contacts[record].birthday)>>)

\* one line of the listing: "{name}: {congratulation_date}"
EntryLine(name, date) == name \o <<58, 32>> \o date

birthdays(args, contacts, today) ==
    LET r == get_upcoming_birthdays(contacts, today)
    IN  IF r.exc # "None" THEN Raise(contacts, r.exc)
        ELSE IF r.value = <<>>
             THEN Return(contacts, "No upcoming birthdays this week.", <<>>)
             ELSE Return(contacts, "{entries}",
                         [i \in 1..Len(r.value) |->
                            EntryLine(r.value[i].name, r.value[i].congratulation_date)])

\* parse_input: cmd, *args = user_input.split() raises ValueError on no token
parse_input(user_input) ==
    LET t == split(user_input)
    IN  IF t = <<>>
        THEN [exc |-> "ValueError", cmd |-> <<>>, args |-> <<>>]
        ELSE [exc |-> "None", cmd |-> lower(strip(t[1])), args |-> Tail(t)]

\* ------------------------------------------------------------------ inputs
\* the command words main compares against
CmdExit         == <<101, 120, 105, 116>>
CmdClose        == <<99, 108, 111, 115, 101>>
CmdHello        == <<104, 101, 108, 108, 111>>
CmdAdd          == <<97, 100, 100>>
CmdChange       == <<99, 104, 97, 110, 103, 101>>
CmdPhone        == <<112, 104, 111, 110, 101>>
CmdAll          == <<97, 108, 108>>
CmdAddBirthday  == <<97, 100, 100, 45, 98, 105, 114, 116, 104, 100, 97, 121>>
CmdShowBirthday == <<115, 104, 111, 119, 45, 98, 105, 114, 116, 104, 100, 97, 121>>
CmdBirthdays    == <<98, 105, 114, 116, 104, 100, 97, 121, 115>>

Commands ==
    {CmdExit, CmdClose, CmdHello, CmdAdd, CmdChange, CmdPhone, CmdAll,
     CmdAddBirthday, CmdShowBirthday, CmdBirthdays}

\* "Bob", "bob", "Al"
NameTexts == {<<66, 111, 98>>, <<98, 111, 98>>, <<65, 108>>}

\* "0123456789" and "01234" superscript-two "6789": ten characters that
\* str.isdigit accepts
TenAscii == <<48, 49, 50, 51, 52, 53, 54, 55, 56, 57>>
TenSuper == <<48, 49, 50, 51, 52, 178, 54, 55, 56, 57>>

\* those two, "123456789", "01234567890", "12345abcde"
PhoneTexts ==
    {TenAscii, TenSuper,
     <<49, 50, 51, 52, 53, 54, 55, 56, 57>>,
     <<48, 49, 50, 51, 52, 53, 54, 55, 56, 57, 48>>,
     <<49, 50, 51, 52, 53, 97, 98, 99, 100, 101>>}

\* the phones typed at the prompt: "0123456789" and "123456789"
TypedPhones == {TenAscii, <<49, 50, 51, 52, 53, 54, 55, 56, 57>>}

\* "01.01.2000", "29.02.2000", "1.3.1990", "31.04.2000", "29.02.2001",
\* "2000.01.01"
BirthdayTexts ==
    {<<48, 49, 46, 48, 49, 46, 50, 48, 48, 48>>,
     <<50, 57, 46, 48, 50, 46, 50, 48, 48, 48>>,
     <<49, 46, 51, 46, 49, 57, 57, 48>>,
     <<51, 49, 46, 48, 52, 46, 50, 48, 48, 48>>,
     <<50, 57, 46, 48, 50, 46, 50, 48, 48, 49>>,
     <<50, 48, 48, 48, 46, 48, 49, 46, 48, 49>>}

\* the values datetime.today().date() takes: around 1 Jan 2024 (8, 7 and 4
\* days before, the day, the day after), around 1 Mar 2023, a year without a
\* leap day (8 and 7 days before, the day), and around 29 Feb and 1 Mar 2024
\* (8 and 7 days before either, the days themselves)
Todays ==
    {<<2023, 12, 24>>, <<2023, 12, 25>>, <<2023, 12, 28>>, <<2024, 1, 1>>,
     <<2024, 1, 2>>, <<2023, 2, 21>>, <<2023, 2, 22>>, <<2023, 3, 1>>,
     <<2024, 2, 21>>, <<2024, 2, 22>>, <<2024, 2, 23>>, <<2024, 2, 29>>,
     <<2024, 3, 1>>}

\* "ADD", "Exit", "foo", "x"
OtherWords == {<<65, 68, 68>>, <<69, 120, 105, 116>>, <<102, 111, 111>>}
Extra == <<120>>

\* the lines typed, as token lists: every command word alone (so with its
\* arguments missing), with its arguments, and with one argument too many
TokenLines ==
    {<<w>> : w \in Commands \cup OtherWords}
    \cup {<<w, n>> : w \in {CmdAdd, CmdPhone, CmdAddBirthday, CmdShowBirthday, CmdChange},
                     n \in NameTexts}
    \cup {<<w, n, p>> : w \in {CmdAdd, <<65, 68, 68>>}, n \in NameTexts, p \in TypedPhones}
    \cup {<<CmdAdd, n, TenAscii, Extra>> : n \in NameTexts}
    \cup {<<CmdChange, n, o, p>> : n \in NameTexts, o \in TypedPhones, p \in TypedPhones}
    \cup {<<CmdChange, n, TenAscii>> : n \in NameTexts}
    \cup {<<CmdPhone, n, Extra>> : n \in NameTexts}
    \cup {<<CmdAddBirthday, n, b>> : n \in NameTexts, b \in BirthdayTexts}
    \cup {<<CmdAddBirthday, n, <<49, 46, 51, 46, 49, 57, 57, 48>>, Extra>> : n \in NameTexts}
    \cup {<<CmdShowBirthday, n, Extra>> : n \in NameTexts}
    \cup {<<CmdHello, Extra>>, <<CmdAll, Extra>>, <<CmdExit, Extra>>, <<CmdBirthdays, Extra>>}

\* the lines input() returns: the token lists joined by a blank, the empty
\* line, a line of blanks, and a command inside blanks and tabs
InputLines ==
    {JoinWith(<<32>>, t) : t \in TokenLines}
    \cup {<<>>, <<32, 32>>, <<32>> \o CmdHello \o <<9, 32>>,
          CmdPhone \o <<32, 9>> \o <<65, 108>>}

\* what main gets of each line: parse_input(input(..).strip())
Parsed == [l \in InputLines |-> parse_input(strip(l))]

RECURSIVE TotalPhones(_)
TotalPhones(contacts) ==
    IF contacts = <<>> THEN 0 ELSE Len(Head(contacts).phones) + TotalPhones(Tail(contacts))

WithinBounds(contacts) ==
    Len(contacts) <= MaxRecords /\ TotalPhones(contacts) <= MaxPhones

\* -------------------------------------------------------------- main's loop
NoOut  == [msg |-> "", data |-> <<>>]
NoLast == [cmd |-> <<>>, args |-> <<>>, today |-> <<>>]
NoRet  == [op |-> "", rec |-> 0, args |-> <<>>, exc |-> "None", value |-> 0]

\* addressbook.pkl
NoFile     == [state |-> "absent", book |-> <<>>]
Unreadable == [state |-> "unreadable", book |-> <<>>]
Pickle(contacts) == [state |-> "pickle", book |-> contacts]

\* load_data: the directory unpickled; a new AddressBook on FileNotFoundError;
\* any other exception of open / pickle.load (EOFError on an empty file) is
\* not caught
load_data(f) ==
    IF f.state = "absent" THEN [exc |-> "None", book |-> <<>>]
    ELSE IF f.state = "pickle" THEN [exc |-> "None", book |-> f.book]
    ELSE [exc |-> "EOFError", book |-> <<>>]

\* save_data: the file is written anew with the pickle of the directory
save_data(contacts) == Pickle(contacts)

\* main is entered; the working directory holds no addressbook.pkl, or one
\* that is not a pickle.  Pickles are those earlier runs of main leave.
Init ==
    /\ book = <<>>
    /\ file \in {NoFile, Unreadable}
    /\ pc = "start"
    /\ out = NoOut
    /\ last = NoLast
    /\ ret = NoRet

\* book = load_data() and the greeting printed; the exception load_data lets
\* through ends the process before the first prompt
Load ==
    /\ pc = "start"
    /\ LET r == load_data(file)
       IN  /\ book' = r.book
           /\ pc' = IF r.exc = "None" THEN "printed" ELSE "load_failed"
           /\ out' = IF r.exc = "None" THEN [msg |-> "{greeting}", data |-> <<>>]
                     ELSE [msg |-> "Traceback", data |-> <<>>]
    /\ UNCHANGED <<file, last, ret>>

\* the program is run again in the same working directory
RunAgain ==
    /\ pc \in {"exited", "crashed", "load_failed"}
    /\ pc' = "start"
    /\ book' = <<>>
    /\ out' = NoOut
    /\ last' = NoLast
    /\ UNCHANGED <<file, ret>>

\* print(handler(..)); an exception input_error does not catch ends the process
Handled(p, r, today) ==
    /\ WithinBounds(r.book)
    /\ book' = r.book
    /\ out' = [msg |-> r.msg, data |-> r.data]
    /\ pc' = IF r.exc = "None" THEN "printed" ELSE "crashed"
    /\ last' = [cmd |-> p.cmd, args |-> p.args, today |-> today]
    /\ UNCHANGED <<file, ret>>

\* user_input is blank: parse_input raises ValueError outside every handler
Blank ==
    /\ pc = "reading"
    /\ \E l \in InputLines :
        /\ Parsed[l].exc # "None"
        /\ pc' = "crashed"
        /\ out' = [msg |-> "Traceback", data |-> <<>>]
        /\ last' = NoLast
        /\ UNCHANGED <<book, file, ret>>

\* the lines whose command word, lowered, is word
LinesOf(word) == {l \in InputLines : Parsed[l].exc = "None" /\ Parsed[l].cmd = word}

Exit ==
    /\ pc = "reading"
    /\ \E l \in LinesOf(CmdExit) \cup LinesOf(CmdClose) :
        /\ pc' = "exited"
        /\ out' = [msg |-> "Good bye!", data |-> <<>>]
        /\ last' = [cmd |-> Parsed[l].cmd, args |-> Parsed[l].args, today |-> <<>>]
        /\ file' = save_data(book)
        /\ UNCHANGED <<book, ret>>

Hello ==
    /\ pc = "reading"
    /\ \E l \in LinesOf(CmdHello) :
        Handled(Parsed[l], Return(book, "How can I help you?", <<>>), <<>>)

Add ==
    /\ pc = "reading"
    /\ \E l \in LinesOf(CmdAdd) :
        Handled(Parsed[l], input_error(add_contact(Parsed[l].args, book)), <<>>)

Change ==
    /\ pc = "reading"
    /\ \E l \in LinesOf(CmdChange) :
        Handled(Parsed[l], input_error(change_contact(Parsed[l].args, book)), <<>>)

ShowPhone ==
    /\ pc = "reading"
    /\ \E l \in LinesOf(CmdPhone) :
        Handled(Parsed[l], input_error(show_phone(Parsed[l].args, book)), <<>>)

ShowAll ==
    /\ pc = "reading"
    /\ \E l \in LinesOf(CmdAll) :
        Handled(Parsed[l], input_error(show_all(book)), <<>>)

AddBirthday ==
    /\ pc = "reading"
    /\ \E l \in LinesOf(CmdAddBirthday) :
        Handled(Parsed[l], input_error(add_birthday(Parsed[l].args, book)), <<>>)

ShowBirthday ==
    /\ pc = "reading"
    /\ \E l \in LinesOf(CmdShowBirthday) :
        Handled(Parsed[l], input_error(show_birthday(Parsed[l].args, book)), <<>>)

Birthdays ==
    /\ pc = "reading"
    /\ \E l \in LinesOf(CmdBirthdays), today \in Todays :
        Handled(Parsed[l], input_error(birthdays(Parsed[l].args, book, today)), today)

Invalid ==
    /\ pc = "reading"
    /\ \E l \in InputLines :
        /\ Parsed[l].exc = "None"
        /\ Parsed[l].cmd \notin Commands
        /\ Handled(Parsed[l], Return(book, "Invalid command.", <<>>), <<>>)

\* the end of an iteration of while True: back to input(), where user_input,
\* command and args are assigned anew
Prompt ==
    /\ pc = "printed"
    /\ pc' = "reading"
    /\ out' = NoOut
    /\ last' = NoLast
    /\ UNCHANGED <<book, file, ret>>

Next ==
    \/ Load \/ RunAgain \/ Prompt \/ Blank \/ Exit \/ Hello \/ Add \/ Change \/ ShowPhone \/ ShowAll
    \/ AddBirthday \/ ShowBirthday \/ Birthdays \/ Invalid

Spec == Init /\ [][Next]_vars

\* ------------------------------------------- the Record / AddressBook API
\* The methods called directly, one call at a time: ret holds the call made,
\* the exception it raised and, for find, the index of the record returned.

\* the names looked up: those stored, "BOB" and "Bo"
FindTexts == NameTexts \cup {<<66, 79, 66>>, <<66, 111>>}

\* the birthdays given to Record.add_birthday: "01.01.2000" and "31.04.2000"
ApiBirthdayTexts ==
    {<<48, 49, 46, 48, 49, 46, 50, 48, 48, 48>>,
     <<51, 49, 46, 48, 52, 46, 50, 48, 48, 48>>}

ApiInit ==
    /\ book = <<>>
    /\ file = NoFile
    /\ pc = "idle"
    /\ out = NoOut
    /\ last = NoLast
    /\ ret = NoRet

Called(contacts, r) ==
    /\ WithinBounds(contacts)
    /\ book' = contacts
    /\ ret' = r
    /\ pc' = "returned"
    /\ UNCHANGED <<file, out, last>>

\* book.add_record(Record(name))
Api_add_record ==
    /\ pc = "idle"
    /\ \E name \in NameTexts :
        Called(add_record(book, Record(name)),
               [op |-> "add_record", rec |-> 0, args |-> <<name>>,
                exc |-> "None", value |-> 0])

\* book.contacts[i].add_phone(phone)
Api_add_phone ==
    /\ pc = "idle"
    /\ \E i \in 1..Len(book), phone \in PhoneTexts \cup {<<>>} :
        LET r == add_phone(book[i], phone)
        IN  Called([book EXCEPT ![i] = r.rec],
                   [op |-> "add_phone", rec |-> i, args |-> <<phone>>,
                    exc |-> r.exc, value |-> 0])

\* book.contacts[i].change_phone(old_phone, new_phone)
Api_change_phone ==
    /\ pc = "idle"
    /\ \E i \in 1..Len(book), old_phone \in PhoneTexts, new_phone \in PhoneTexts :
        LET r == change_phone(book[i], old_phone, new_phone)
        IN  Called([book EXCEPT ![i] = r.rec],
                   [op |-> "change_phone", rec |-> i, args |-> <<old_phone, new_phone>>,
                    exc |-> r.exc, value |-> 0])

\* book.contacts[i].add_birthday(birthday)
Api_add_birthday ==
    /\ pc = "idle"
    /\ \E i \in 1..Len(book), birthday \in ApiBirthdayTexts :
        LET r == Record_add_birthday(book[i], birthday)
        IN  Called([book EXCEPT ![i] = r.rec],
                   [op |-> "add_birthday", rec |-> i, args |-> <<birthday>>,
                    exc |-> r.exc, value |-> 0])

\* book.find(name)
Api_find ==
    /\ pc = "idle"
    /\ \E name \in FindTexts :
        Called(book, [op |-> "find", rec |-> 0, args |-> <<name>>,
                      exc |-> "None", value |-> find(book, name)])

\* the caller goes on to its next call
Api_resume ==
    /\ pc = "returned"
    /\ pc' = "idle"
    /\ ret' = NoRet
    /\ UNCHANGED <<book, file, out, last>>

ApiNext ==
    \/ Api_add_record \/ Api_add_phone \/ Api_change_phone \/ Api_add_birthday
    \/ Api_find \/ Api_resume

SpecApi == ApiInit /\ [][ApiNext]_vars

\* ------------------------------------------------------------ the claims
\* what the claims are stated with, defined apart from the code's operators
IsUpper(c) == c \in (65..90) \cup (192..214) \cup (216..222)

SameLetter(a, b) ==
    a = b \/ (IsUpper(a) /\ b = a + 32) \/ (IsUpper(b) /\ a = b + 32)

\* two names are equal when letter case is ignored
SameName(a, b) == Len(a) = Len(b) /\ \A i \in 1..Len(a) : SameLetter(a[i], b[i])

Names(contacts) == [i \in 1..Len(contacts) |-> contacts[i].name]

IsPrefix(a, b) == Len(a) <= Len(b) /\ \A i \in 1..Len(a) : a[i] = b[i]

\* ten characters, each one of 0-9
TenDecimalDigits(t) == Len(t) = 10 /\ \A i \in 1..Len(t) : t[i] \in 48..57

RECURSIVE DaysBeforeMonth(_, _)
DaysBeforeMonth(y, m) ==
    IF m = 1 THEN 0 ELSE DaysBeforeMonth(y, m - 1) + DaysInMonth(y, m - 1)

\* the number of the day d, counting 1 Jan of year 1 as day 1
Ordinal(d) ==
    LET y == d[1] - 1
    IN  365 * y + (y \div 4) - (y \div 100) + (y \div 400)
          + DaysBeforeMonth(d[1], d[2]) + d[3]

IsLeapDay(b) == b[2] = 2 /\ b[3] = 29

\* the next occurrence of birthday b (not 29 Feb) seen from today
Occurrence(b, today) ==
    IF Ordinal(<<today[1], b[2], b[3]>>) < Ordinal(today)
    THEN <<today[1] + 1, b[2], b[3]>>
    ELSE <<today[1], b[2], b[3]>>

InWindow(b, today) ==
    Ordinal(Occurrence(b, today)) - Ordinal(today) \in 0..7

\* "YYYY.MM.DD"
FormatYMD(d) == Pad4(d[1]) \o <<46>> \o Pad2(d[2]) \o <<46>> \o Pad2(d[3])

Lines(data) == {data[i] : i \in 1..Len(data)}

\* record i of the directory is in the listing printed, with its occurrence
Reported(i) ==
    /\ out.msg = "{entries}"
    /\ EntryLine(book[i].name, FormatYMD(Occurrence(book[i].birthday, last.today)))
         \in Lines(out.data)

\* no line of the listing printed bears the name of record i
NotReported(i) ==
    out.msg = "{entries}" =>
        \A k \in 1..Len(out.data) :
            ~IsPrefix(book[i].name \o <<58, 32>>, out.data[k])

AfterBirthdays == pc = "printed" /\ last.cmd = CmdBirthdays

HasLeapDay(contacts) ==
    \E i \in 1..Len(contacts) :
        contacts[i].birthday # <<>> /\ IsLeapDay(contacts[i].birthday)

\* the window of C2, for the records of the directory that are not born on 29 Feb
WindowHolds ==
    \A i \in 1..Len(book) :
        (book[i].birthday # <<>> /\ ~IsLeapDay(book[i].birthday)) =>
            IF InWindow(book[i].birthday, last.today) THEN Reported(i)
            ELSE NotReported(i)

\* C1: no input line crashes the command loop: every line other than exit/close
\* gets a message printed and the loop reads on; the process ends only through
\* exit/close.  (Stated as the claim has it; the blank line refutes it.)
C1_NoLineCrashes ==
    /\ pc # "crashed"
    /\ pc = "printed" => out.msg # ""
    /\ pc = "exited" => last.cmd \in {CmdExit, CmdClose}

\* C2: whatever today is, a record whose birthday is not 29 Feb is in the listing
\* of upcoming birthdays exactly when its next occurrence lies in
\* [today, today + 7 days], and it is listed with that occurrence's date.
\* (Stated as the claim has it, for every directory.)
C2_WindowInclusive == AfterBirthdays => WindowHolds

\* The same window property over the directories that hold no 29 Feb birthday.
C2_WindowWithoutLeapDay == (AfterBirthdays /\ ~HasLeapDay(book)) => WindowHolds

\* C3: with a 29 Feb birthday in the directory the query still returns a listing,
\* and the other records whose occurrences lie in the window are still reported.
C3_LeapDayHandled ==
    (AfterBirthdays /\ HasLeapDay(book)) =>
        /\ out.msg \in {"{entries}", "No upcoming birthdays this week."}
        /\ \A i \in 1..Len(book) :
             (/\ book[i].birthday # <<>>
              /\ ~IsLeapDay(book[i].birthday)
              /\ InWindow(book[i].birthday, last.today)) => Reported(i)

\* C4: a failing change_phone(old, new) leaves the phone sequence as it was: with
\* no phone equal to old it raises KeyError (PhoneNotFound); with a phone equal to
\* old and a new text that is not ten decimal digits 0-9 it raises ValueError
\* (InvalidPhoneFormat); either way every phone and the length are unchanged.
\* (Stated as the claim has it; a new text of ten characters str.isdigit
\* accepts that are not all 0-9 refutes it.)
C4_FailedChangeKeepsPhones ==
    [][(pc = "idle" /\ ret'.op = "change_phone") =>
         LET before == book[ret'.rec].phones
             after  == book'[ret'.rec].phones
             old    == ret'.args[1]
             new    == ret'.args[2]
             has    == \E k \in 1..Len(before) : before[k] = old
         IN  /\ ~has => ret'.exc = "KeyError"
             /\ (has /\ ~TenDecimalDigits(new)) =>
                   /\ ret'.exc = "ValueError"
                   /\ Len(after) = Len(before)
                   /\ \A k \in 1..Len(before) : after[k] = before[k]
             /\ ret'.exc # "None" =>
                   /\ Len(after) = Len(before)
                   /\ \A k \in 1..Len(before) : after[k] = before[k]]_vars

\* What does hold of change_phone: with no phone equal to old it raises
\* KeyError, and a call that raises leaves every phone and the length as they
\* were.
ChangeThatRaisesKeepsPhones ==
    [][(pc = "idle" /\ ret'.op = "change_phone") =>
         LET before == book[ret'.rec].phones
             after  == book'[ret'.rec].phones
             old    == ret'.args[1]
             has    == \E k \in 1..Len(before) : before[k] = old
         IN  /\ ~has => ret'.exc = "KeyError"
             /\ ret'.exc # "None" =>
                   /\ Len(after) = Len(before)
                   /\ \A k \in 1..Len(before) : after[k] = before[k]]_vars

\* C5: find returns the first record, in insertion order, whose name equals the
\* text when letter case is ignored, and None (index 0) when there is none; two
\* spellings that differ only in case find the same record.
C5_FindFirstIgnoringCase ==
    /\ ret.op = "find" =>
         /\ ret.exc = "None"
         /\ ret.value \in 0..Len(book)
         /\ ret.value = 0 => \A i \in 1..Len(book) : ~SameName(book[i].name, ret.args[1])
         /\ ret.value # 0 =>
              /\ SameName(book[ret.value].name, ret.args[1])
              /\ \A j \in 1..(ret.value - 1) : ~SameName(book[j].name, ret.args[1])
    /\ pc = "idle" =>
         \A a \in FindTexts, b \in FindTexts :
             SameName(a, b) => find(book, a) = find(book, b)

C5_Witness ==
    /\ pc = "returned"
    /\ ret.op = "find"
    /\ ret.value = 1
    /\ Len(book) = 2
    /\ book[1].name # ret.args[1]
    /\ book[2].name = ret.args[1]

\* C6: every phone a record holds is a text of exactly ten characters, each one
\* of the decimal digits 0-9.  (Stated as the claim has it.)
C6_PhonesTenDecimalDigits ==
    \A i \in 1..Len(book) :
        \A k \in 1..Len(book[i].phones) : TenDecimalDigits(book[i].phones[k])

\* C7: a successful change_phone(old, new) replaces the first phone equal to old,
\* in place: the length is unchanged, every other position (later duplicates of
\* old too) keeps its value, and name, birthday and the other records are unchanged.
C7_ChangeReplacesFirstOnly ==
    [][(pc = "idle" /\ ret'.op = "change_phone" /\ ret'.exc = "None") =>
         LET i      == ret'.rec
             before == book[i].phones
             after  == book'[i].phones
             old    == ret'.args[1]
             new    == ret'.args[2]
         IN  /\ Len(book') = Len(book)
             /\ \A j \in 1..Len(book) : j # i => book'[j] = book[j]
             /\ book'[i].name = book[i].name
             /\ book'[i].birthday = book[i].birthday
             /\ Len(after) = Len(before)
             /\ \E k \in 1..Len(before) :
                  /\ before[k] = old
                  /\ \A m \in 1..(k - 1) : before[m] # old
                  /\ after[k] = new
                  /\ \A m \in 1..Len(before) : m # k => after[m] = before[m]]_vars

C7_Witness ==
    /\ pc = "returned"
    /\ ret.op = "change_phone"
    /\ ret.exc = "None"
    /\ ret.args[1] # ret.args[2]
    /\ book[ret.rec].phones = <<ret.args[2], ret.args[1]>>
    /\ book[ret.rec].birthday # <<>>

\* C8: the directory is append-only: over every command of the loop the names
\* before are a prefix of the names after, and one command appends at most one
\* record.
C8_AppendOnly ==
    [][pc = "reading" =>
         /\ IsPrefix(Names(book), Names(book'))
         /\ Len(book') <= Len(book) + 1]_vars

\* a second record is added in a run that restored a one-record directory
C8_Witness ==
    /\ pc = "printed"
    /\ last.cmd = CmdAdd
    /\ out.msg = "Contact added."
    /\ Len(book) = 2
    /\ file.state = "pickle"
    /\ Len(file.book) = 1

\* the messages input_error returns
ErrorMessages ==
    {"Please give me proper value.", "Enter the argument for the command.",
     "Contact not found."}

\* C9: a command that reports one of input_error's messages leaves the directory
\* as it was.  (Stated as the claim has it.)
C9_ErrorLeavesDirectory ==
    [][(pc = "reading" /\ out'.msg \in ErrorMessages) => book' = book]_vars

\* C10: driven through the command handlers from the empty directory (saved
\* and restored between runs or not), no two records have names that are equal
\* when letter case is ignored.
C10_NamesUnique ==
    \A i \in 1..Len(book), j \in 1..Len(book) :
        SameName(book[i].name, book[j].name) => i = j

\* add, spelt in another case, of a name the restored directory holds
C10_Witness ==
    /\ pc = "printed"
    /\ file.state = "pickle"
    /\ Len(file.book) = 2
    /\ last.cmd = CmdAdd
    /\ out.msg = "Contact updated."
    /\ Len(book) = 2
    /\ \E i \in 1..Len(book) :
         /\ SameName(book[i].name, last.args[1])
         /\ book[i].name # last.args[1]
         /\ book[i].phones # <<>>

====
